---- MODULE Spec2Model ----
(***************************************************************************)
(* A model of src/src/logging_config.py: the dedicated "mariadb_mcp"       *)
(* logger (setup_logger, get_logger), the record formatter                 *)
(* (CustomJsonFormatter.add_fields), the rotating file sink it installs    *)
(* and the third-party threshold setter (setup_third_party_logging).       *)
(*                                                                         *)
(* Strings whose characters the code inspects (severity names, which are   *)
(* upper-cased, and record keys, whose first character is tested) are      *)
(* sequences of one-character strings.  Logger names are sequences of      *)
(* their dot-separated components: "mariadb_mcp.db" is                     *)
(* <<"mariadb_mcp", "db">> and the interpreter's root logger is << >>.     *)
(***************************************************************************)
EXTENDS Integers, Sequences, FiniteSets, TLC

\* ------------------------------------------------------------------ bounds
\* setup_logger creates fresh handler objects on every call; a handler is
\* identified by the number of the call that created it.
MaxSetups == 2
\* The largest number of keys in one extra= mapping.
MaxExtraKeys == 3
\* The largest number of records written to the log file in one run.
MaxWrites == 5
\* Threads emitting concurrently, and the events each of them emits.
NumThreads == 2
EventsPerThread == 2

\* ------------------------------------------------------- severity numbers
NOTSET == 0
DEBUG == 10
INFO == 20
WARNING == 30
ERROR == 40
CRITICAL == 50

Severities == {DEBUG, INFO, WARNING, ERROR, CRITICAL}

\* Defaults of setup_logger's parameters.
DEFAULT_MAX_BYTES == 10485760
DEFAULT_BACKUP_COUNT == 5

\* --------------------------------------------------------------- strings
LowerToUpper ==
  [c \in {"a","b","c","d","e","f","g","i","k","l","m","n","o","r","s","t","u","w","y"} |->
     CASE c = "a" -> "A" [] c = "b" -> "B" [] c = "c" -> "C" [] c = "d" -> "D"
       [] c = "e" -> "E" [] c = "f" -> "F" [] c = "g" -> "G" [] c = "i" -> "I"
       [] c = "k" -> "K" [] c = "l" -> "L" [] c = "m" -> "M" [] c = "n" -> "N"
       [] c = "o" -> "O" [] c = "r" -> "R" [] c = "s" -> "S" [] c = "t" -> "T"
       [] c = "u" -> "U" [] c = "w" -> "W" [] c = "y" -> "Y"]

\* str.upper(): every cased character is replaced by its upper-case form.
Upper(s) ==
  [i \in 1..Len(s) |-> IF s[i] \in DOMAIN LowerToUpper THEN LowerToUpper[s[i]] ELSE s[i]]

\* The upper-case attributes of the logging module that a severity string
\* can name once upper-cased, and the kind of value each holds.
IntVal(n) == [t |-> "int", v |-> n]
StrVal == [t |-> "str", v |-> 0]
DictVal == [t |-> "dict", v |-> 0]

LoggingAttrs ==
  { <<<<"D","E","B","U","G">>, IntVal(DEBUG)>>,
    <<<<"I","N","F","O">>, IntVal(INFO)>>,
    <<<<"W","A","R","N","I","N","G">>, IntVal(WARNING)>>,
    <<<<"W","A","R","N">>, IntVal(WARNING)>>,
    <<<<"E","R","R","O","R">>, IntVal(ERROR)>>,
    <<<<"C","R","I","T","I","C","A","L">>, IntVal(CRITICAL)>>,
    <<<<"F","A","T","A","L">>, IntVal(CRITICAL)>>,
    <<<<"N","O","T","S","E","T">>, IntVal(NOTSET)>>,
    <<<<"B","A","S","I","C","_","F","O","R","M","A","T">>, StrVal>>,
    <<<<"_","S","T","Y","L","E","S">>, DictVal>> }

\* getattr(logging, name, default)
GetAttr(name, default) ==
  IF \E p \in LoggingAttrs : p[1] = name
    THEN (CHOOSE p \in LoggingAttrs : p[1] = name)[2]
    ELSE default

\* logging._checkLevel, reached through Logger.setLevel: an int is taken as
\* it is; the string and dict values found above are no level names and raise.
SetLevelRaises(v) == v.t # "int"

\* ---------------------------------------------------------- logger names
ROOT == << >>
LOGGER_NAME == <<"mariadb_mcp">>

third_party_loggers ==
  << <<"fastmcp">>, <<"uvicorn">>, <<"uvicorn","access">>, <<"uvicorn","error">>,
     <<"starlette">>, <<"asyncmy">>, <<"httpx">>, <<"httpcore">> >>

ThirdPartySet == {third_party_loggers[i] : i \in 1..Len(third_party_loggers)}

\* Names get_logger is called with: absent (None), empty, one component, two.
NameArg(given, text) == [given |-> given, text |-> text]
NameInputs ==
  { NameArg(FALSE, << >>), NameArg(TRUE, << >>),
    NameArg(TRUE, <<"db">>), NameArg(TRUE, <<"db","pool">>) }

\* What a call returned: a logger, or nothing (it raised or returns None).
Returned(n) == [some |-> TRUE, logger |-> n]
Nothing == [some |-> FALSE, logger |-> << >>]

\* Loggers owned by other code that may exist when this module is used: one
\* named in third_party_loggers, a descendant of a listed name that is not
\* listed itself, and one whose name only begins with the letters of a listed
\* name.
AmbientChoices ==
  { [name |-> <<"uvicorn","access">>, level |-> INFO, propagate |-> FALSE],
    [name |-> <<"httpx","client">>, level |-> NOTSET, propagate |-> TRUE],
    [name |-> <<"httpx","client">>, level |-> DEBUG, propagate |-> TRUE],
    [name |-> <<"httpxtra">>, level |-> NOTSET, propagate |-> TRUE] }

Universe ==
  {ROOT, LOGGER_NAME} \cup {LOGGER_NAME \o a.text : a \in NameInputs}
    \cup {<<"mariadb_mcp","db">>}
    \cup ThirdPartySet \cup {c.name : c \in AmbientChoices}

\* ----------------------------------------------------------------- state
VARIABLES
  loggers,     \* names of the Logger objects that exist (Manager.loggerDict)
  level,       \* Logger.level of each name
  propagate,   \* Logger.propagate of each name
  handlers,    \* Logger.handlers of each name, in list order
  gen,         \* number of setup_logger calls made so far
  cfg,         \* arguments of the most recent setup_logger call
  raised,      \* whether the most recent call of this module raised
  initialized, \* some setup_logger call got past its setLevel
  op,          \* the most recent operation and its name argument
  ret,         \* what the most recent operation returned
  emitted,     \* where the most recent operation, if an emission, was delivered
  before       \* the loggers as the most recent operation, if it was
               \* setup_third_party_logging, found them

regVars == <<loggers, level, propagate, handlers, gen, cfg, raised, initialized,
             op, ret, emitted, before>>

\* The formatter: one logging call and the record it is turned into.
VARIABLES
  fmtEvent,    \* what the logging call itself fixes: level, logger, call site, time
  fmtExtra,    \* the extra= mapping the caller passed
  fmtStatus,   \* "called", "record" (LogRecord made), "KeyError" or "formatted"
  fmtRecord,   \* the LogRecord's __dict__
  log_record   \* the mapping add_fields filled

fmtVars == <<fmtEvent, fmtExtra, fmtStatus, fmtRecord, log_record>>

\* The log file and its backups, as the rotating file handler leaves them.
VARIABLES
  fs,          \* the file at log_file_path and its numbered backups
  rotations,   \* number of doRollover calls so far
  evicted,     \* records that were in a backup file when it was removed
  lastWrite    \* what the most recent emit of the file handler found and did

fileVars == <<fs, rotations, evicted, lastWrite>>

\* Threads emitting to the file sink, each inside Handler.handle.
VARIABLES
  pc,          \* where each emitting thread is
  todo,        \* events each thread has still to emit
  pend,        \* length of the record a thread is emitting
  lock         \* the thread holding the file handler's lock, or NoThread

concVars == <<pc, todo, pend, lock>>

\* A setup_logger call running statement by statement next to an emission.
VARIABLES
  su,          \* the running setup_logger call
  em           \* the running Logger.log call

reinitVars == <<su, em>>

auxVars == <<concVars, reinitVars>>

vars == <<regVars, fmtVars, fileVars, auxVars>>

\* ------------------------------------------------- the logging hierarchy
ConsoleHandler(g) ==
  [kind |-> "console", gen |-> g, maxBytes |-> 0, backupCount |-> 0]

\* RotatingFileHandler(log_file, maxBytes=log_max_bytes, backupCount=log_backup_count)
RotatingFileHandler(g, log_max_bytes, log_backup_count) ==
  [kind |-> "file", gen |-> g, maxBytes |-> log_max_bytes,
   backupCount |-> log_backup_count]

\* A handler some other code attached to the interpreter's root logger.
AmbientHandler ==
  [kind |-> "ambient", gen |-> 0, maxBytes |-> 0, backupCount |-> 0]

\* The loggers of the interpreter: which exist, and their attributes.
Now == [loggers |-> loggers, level |-> level, propagate |-> propagate,
        handlers |-> handlers]

\* Logger.parent: the nearest existing ancestor, the root logger when no
\* dotted prefix of the name is a logger (Manager._fixupParents/_fixupChildren).
ParentIn(st, n) ==
  LET ks == {k \in 1..(Len(n) - 1) : SubSeq(n, 1, k) \in st.loggers}
  IN IF ks = {} THEN ROOT
     ELSE SubSeq(n, 1, CHOOSE k \in ks : \A j \in ks : j <= k)

\* Logger.getEffectiveLevel: the first non-zero level up the parent chain.
RECURSIVE getEffectiveLevelIn(_, _)
getEffectiveLevelIn(st, n) ==
  IF st.level[n] # NOTSET THEN st.level[n]
  ELSE IF n = ROOT THEN NOTSET
  ELSE getEffectiveLevelIn(st, ParentIn(st, n))

getEffectiveLevel(n) == getEffectiveLevelIn(Now, n)

\* A filter that also drops events exactly at the threshold.
isEnabledFor_Strict(n, s) == s > getEffectiveLevel(n)

\* Logger.isEnabledFor
isEnabledFor(n, s) == s >= getEffectiveLevel(n)

\* Logger.callHandlers: the handlers of the logger and of its ancestors, up to
\* and including the first logger that does not propagate.
RECURSIVE callHandlersIn(_, _)
callHandlersIn(st, n) ==
  st.handlers[n]
    \o (IF n = ROOT \/ ~st.propagate[n] THEN << >>
        ELSE callHandlersIn(st, ParentIn(st, n)))

callHandlers(n) == callHandlersIn(Now, n)

\* logging.lastResort is a stderr handler of level WARNING, used when
\* callHandlers found no handler at all.
LastResortPrints(n, s) == callHandlers(n) = << >> /\ s >= WARNING

\* What Logger.log(s, ...) on logger n does in the current configuration.
Delivery(n, s) ==
  IF isEnabledFor(n, s)
    THEN [on |-> n, sev |-> s, to |-> callHandlers(n), lastResort |-> LastResortPrints(n, s)]
    ELSE [on |-> n, sev |-> s, to |-> << >>, lastResort |-> FALSE]

\* --------------------------------------------------------- setup_logger
\* logger.setLevel(getattr(logging, log_level.upper(), logging.INFO))
RequestedLevel(log_level) == GetAttr(Upper(log_level), IntVal(INFO))

\* A setup that leaves the logger propagating to the root logger.
PropagateAfterSetup_Left == TRUE

\* logger.propagate = False
PropagateAfterSetup == FALSE

\* A re-initialization that forgets to detach the previous sinks.
RemoveExistingHandlers_Keep(hs) == hs

\* for handler in logger.handlers[:]: logger.removeHandler(handler)
RemoveExistingHandlers(hs) == << >>

\* The console and file handlers the call attaches, in the order it adds them.
\* io_ok: whether creating the directory and opening the file succeeded.
NewHandlers(g, log_max_bytes, log_backup_count, enable_console, enable_file, io_ok) ==
  (IF enable_console THEN <<ConsoleHandler(g)>> ELSE << >>)
    \o (IF enable_file /\ io_ok
          THEN <<RotatingFileHandler(g, log_max_bytes, log_backup_count)>>
          ELSE << >>)

NoArg == NameArg(FALSE, << >>)

NoEmission == [on |-> ROOT, sev |-> NOTSET, to |-> << >>, lastResort |-> FALSE]

NoSnapshot == [loggers |-> {}, level |-> << >>, propagate |-> << >>, handlers |-> << >>]

Op(name, arg, lvl) == [name |-> name, arg |-> arg, level |-> lvl]

setup_logger(log_level, log_max_bytes, log_backup_count, enable_console, enable_file, io_ok) ==
  /\ gen < MaxSetups
  /\ gen' = gen + 1
  /\ loggers' = loggers \cup {LOGGER_NAME}
  /\ op' = Op("setup_logger", NoArg, << >>)
  /\ cfg' = [called |-> TRUE, log_level |-> log_level,
             log_max_bytes |-> log_max_bytes, log_backup_count |-> log_backup_count,
             enable_console |-> enable_console, enable_file |-> enable_file,
             io_ok |-> io_ok,
             returned |-> ~SetLevelRaises(RequestedLevel(log_level))
                            /\ (enable_file => io_ok)]
  /\ IF SetLevelRaises(RequestedLevel(log_level))
       THEN /\ raised' = TRUE
            /\ ret' = Nothing
            /\ UNCHANGED <<level, propagate, handlers, initialized>>
       ELSE /\ level' = [level EXCEPT ![LOGGER_NAME] = RequestedLevel(log_level).v]
            /\ propagate' = [propagate EXCEPT ![LOGGER_NAME] = PropagateAfterSetup]
            /\ handlers' = [handlers EXCEPT ![LOGGER_NAME] =
                 RemoveExistingHandlers(@)
                   \o NewHandlers(gen + 1, log_max_bytes, log_backup_count,
                                  enable_console, enable_file, io_ok)]
            /\ initialized' = TRUE
            /\ raised' = (enable_file /\ ~io_ok)
            /\ ret' = IF enable_file /\ ~io_ok THEN Nothing ELSE Returned(LOGGER_NAME)
  /\ emitted' = NoEmission
  /\ before' = NoSnapshot
  /\ UNCHANGED <<fmtVars, auxVars>>

\* ----------------------------------------------------------- get_logger
\* if name: f"{LOGGER_NAME}.{name}" else LOGGER_NAME
LoggerNameFor(arg) ==
  IF arg.given /\ arg.text # << >> THEN LOGGER_NAME \o arg.text ELSE LOGGER_NAME

get_logger(arg) ==
  /\ ret' = Returned(LoggerNameFor(arg))
  /\ loggers' = loggers \cup {LoggerNameFor(arg)}
  /\ op' = Op("get_logger", arg, << >>)
  /\ raised' = FALSE
  /\ emitted' = NoEmission
  /\ before' = NoSnapshot
  /\ UNCHANGED <<level, propagate, handlers, gen, cfg, initialized>>
  /\ UNCHANGED <<fmtVars, fileVars, auxVars>>

\* ------------------------------------------------------------- emission
\* logging.getLogger(n).log(s, ...) on a logger that exists.
Emit(n, s) ==
  /\ n \in loggers
  /\ emitted' = Delivery(n, s)
  /\ op' = Op("emit", NoArg, << >>)
  /\ raised' = FALSE
  /\ ret' = Nothing
  /\ before' = NoSnapshot
  /\ UNCHANGED <<loggers, level, propagate, handlers, gen, cfg, initialized>>
  /\ UNCHANGED <<fmtVars, fileVars, auxVars>>

\* ------------------------------------------- setup_third_party_logging
\* A lookup that forgets to upper-case the configured string.
ThirdPartyLevel_NoUpper(lvl) == GetAttr(lvl, IntVal(WARNING))

\* log_level = getattr(logging, level.upper(), logging.WARNING)
ThirdPartyLevel(lvl) == GetAttr(Upper(lvl), IntVal(WARNING))

\* third_party_logger.propagate = True
ThirdPartyPropagate(old) == TRUE

setup_third_party_logging(lvl) ==
  /\ op' = Op("setup_third_party_logging", NoArg, lvl)
  /\ IF SetLevelRaises(ThirdPartyLevel(lvl))
       THEN \* the first logger of the list is created, then setLevel raises
            /\ loggers' = loggers \cup {third_party_loggers[1]}
            /\ raised' = TRUE
            /\ UNCHANGED <<level, propagate>>
       ELSE /\ loggers' = loggers \cup ThirdPartySet
            /\ level' = [n \in Universe |->
                 IF n \in ThirdPartySet THEN ThirdPartyLevel(lvl).v ELSE level[n]]
            /\ propagate' = [n \in Universe |->
                 IF n \in ThirdPartySet THEN ThirdPartyPropagate(propagate[n])
                 ELSE propagate[n]]
            /\ raised' = FALSE
  /\ ret' = Nothing
  /\ emitted' = NoEmission
  /\ before' = Now
  /\ UNCHANGED <<handlers, gen, cfg, initialized>>
  /\ UNCHANGED <<fmtVars, fileVars, auxVars>>

\* ------------------------------------------------------- initial states
NoCfg ==
  [called |-> FALSE, log_level |-> << >>, log_max_bytes |-> 0, log_backup_count |-> 0,
   enable_console |-> FALSE, enable_file |-> FALSE, io_ok |-> TRUE, returned |-> FALSE]

\* Sets of ambient loggers that can exist together (one entry per name).
AmbientSets ==
  {A \in SUBSET AmbientChoices : \A a, b \in A : a.name = b.name => a = b}

\* A fresh interpreter (the root logger exists, at WARNING) in which other code
\* has created the loggers of amb and attached rootHandlers to the root logger.
InitWith(amb, rootHandlers) ==
  /\ loggers = {ROOT} \cup {a.name : a \in amb}
  /\ level = [n \in Universe |->
       IF n = ROOT THEN WARNING
       ELSE IF \E a \in amb : a.name = n THEN (CHOOSE a \in amb : a.name = n).level
       ELSE NOTSET]
  /\ propagate = [n \in Universe |->
       IF \E a \in amb : a.name = n THEN (CHOOSE a \in amb : a.name = n).propagate
       ELSE TRUE]
  /\ handlers = [n \in Universe |-> IF n = ROOT THEN rootHandlers ELSE << >>]
  /\ gen = 0
  /\ cfg = NoCfg
  /\ raised = FALSE
  /\ initialized = FALSE
  /\ op = Op("init", NoArg, << >>)
  /\ ret = Nothing
  /\ emitted = NoEmission
  /\ before = NoSnapshot

RootHandlerChoices == { << >>, <<AmbientHandler>> }

\* ------------------------------------------------ the registry (Spec)
\* Severity strings naming the five levels, in mixed case.
ValidLevelInputs ==
  { <<"d","e","b","u","g">>, <<"I","N","F","O">>, <<"W","a","r","n","i","n","g">>,
    <<"e","r","r","o","r">>, <<"C","R","I","T","I","C","A","L">> }

\* Severity strings naming none of the five levels.
OtherLevelInputs ==
  { <<"w","a","r","n">>, <<"n","o","t","s","e","t">>, <<"b","o","g","u","s">>,
    <<"b","a","s","i","c","_","f","o","r","m","a","t">>, <<"_","s","t","y","l","e","s">>,
    << >> }

\* (log_max_bytes, log_backup_count) pairs passed to setup_logger.
SizeInputs == { <<DEFAULT_MAX_BYTES, DEFAULT_BACKUP_COUNT>>, <<0, 0>>, <<-1, -1>> }

FmtIdle ==
  /\ fmtEvent = << >> /\ fmtExtra = << >> /\ fmtStatus = "idle"
  /\ fmtRecord = << >> /\ log_record = << >>

\* A file: its size in bytes, the number of whole records in it and the
\* number of rollovers that had happened when it was opened.
File(size, recs, born) == [size |-> size, recs |-> recs, born |-> born]
NoFile == [size |-> -1, recs |-> 0, born |-> -1]

\* Backup slots <path>.1 .. <path>.MaxSlots that the model keeps track of.
MaxSlots == 6

\* The log directory with a log file of the given size and no backup.
FilesWith(size, recs) ==
  [cur |-> File(size, recs, 0), bak |-> [i \in 1..MaxSlots |-> NoFile]]

NoWrite == [len |-> 0, sizeBefore |-> 0, bornBefore |-> 0, rolled |-> FALSE]

FileIdle ==
  /\ fs = FilesWith(0, 0) /\ rotations = 0 /\ evicted = 0 /\ lastWrite = NoWrite

Threads == 1..NumThreads
NoThread == 0

ConcIdle ==
  /\ pc = [t \in Threads |-> "idle"] /\ todo = [t \in Threads |-> 0]
  /\ pend = [t \in Threads |-> 0] /\ lock = NoThread

NoSetup == [pc |-> "none"]
NoLog == [pc |-> "none"]

ReinitIdle == su = NoSetup /\ em = NoLog

AuxIdle == FileIdle /\ ConcIdle /\ ReinitIdle

Init == (\E rh \in RootHandlerChoices : InitWith({}, rh)) /\ FmtIdle /\ AuxIdle

\* Every valid severity with every choice of sinks and sizes; the file sink's
\* directory or file may be unavailable.
SetupLogger ==
  \E ll \in ValidLevelInputs, sz \in SizeInputs, ec \in BOOLEAN, ef \in BOOLEAN, ok \in BOOLEAN :
    /\ (~ef => ok /\ sz[1] = DEFAULT_MAX_BYTES)
    /\ setup_logger(ll, sz[1], sz[2], ec, ef, ok)

\* The other severity strings, with the default sinks and sizes.
SetupLoggerOtherLevel ==
  \E ll \in OtherLevelInputs :
    setup_logger(ll, DEFAULT_MAX_BYTES, DEFAULT_BACKUP_COUNT, TRUE, TRUE, TRUE)

GetLogger == \E a \in NameInputs : get_logger(a)

OwnLoggers == {LOGGER_NAME \o a.text : a \in NameInputs}

EmitOwn == \E n \in OwnLoggers, s \in Severities : Emit(n, s)

Next ==
  \/ SetupLogger /\ UNCHANGED fileVars
  \/ SetupLoggerOtherLevel /\ UNCHANGED fileVars
  \/ GetLogger
  \/ EmitOwn

Spec == Init /\ [][Next]_vars

\* ------------------------------------------- properties of the registry
\* The five severity names of the configuration contract and their order.
SeverityNames ==
  { <<"D","E","B","U","G">>, <<"I","N","F","O">>, <<"W","A","R","N","I","N","G">>,
    <<"E","R","R","O","R">>, <<"C","R","I","T","I","C","A","L">> }

NamedSeverity(name) ==
  CASE name = <<"D","E","B","U","G">> -> 10
    [] name = <<"I","N","F","O">> -> 20
    [] name = <<"W","A","R","N","I","N","G">> -> 30
    [] name = <<"E","R","R","O","R">> -> 40
    [] name = <<"C","R","I","T","I","C","A","L">> -> 50

\* The sink kinds the flags of the last setup_logger call select.
SelectedKinds ==
  (IF cfg.enable_console THEN <<"console">> ELSE << >>)
    \o (IF cfg.enable_file THEN <<"file">> ELSE << >>)

KindsOf(hs) == [i \in 1..Len(hs) |-> hs[i].kind]

Occurrences(hs, h) == Cardinality({i \in 1..Len(hs) : hs[i] = h})

OwnEmission == op.name = "emit" /\ emitted.on \in OwnLoggers

\* C1: once the most recent setup_logger call has returned normally, the
\* handlers attached to "mariadb_mcp" are exactly the console and/or file
\* handler its flags select, every one of them created by that call (none by
\* an earlier call), and an emission that passes the threshold writes one line
\* to each of them, never two.
C1_OnlyLastCallsSinks ==
  (cfg.called /\ cfg.returned) =>
    /\ KindsOf(handlers[LOGGER_NAME]) = SelectedKinds
    /\ \A i \in 1..Len(handlers[LOGGER_NAME]) : handlers[LOGGER_NAME][i].gen = gen
    /\ (OwnEmission /\ emitted.to # << >>) =>
         /\ KindsOf(emitted.to) = SelectedKinds
         /\ \A i \in 1..Len(emitted.to) : Occurrences(emitted.to, emitted.to[i]) = 1

C1_Witness ==
  /\ gen = 2 /\ cfg.returned /\ OwnEmission
  /\ cfg.enable_console /\ ~cfg.enable_file
  /\ Len(emitted.to) = 1

\* C2: with a valid threshold T configured by a setup_logger call that
\* returned, an emission on "mariadb_mcp" or on one of its children below T
\* reaches no sink, and one at or above T reaches each enabled sink exactly
\* once.
C2_ThresholdFilters ==
  (cfg.called /\ cfg.returned /\ Upper(cfg.log_level) \in SeverityNames /\ OwnEmission) =>
    LET T == NamedSeverity(Upper(cfg.log_level))
    IN /\ (emitted.sev < T) => (emitted.to = << >> /\ ~emitted.lastResort)
       /\ (emitted.sev >= T) =>
            /\ KindsOf(emitted.to) = SelectedKinds
            /\ emitted.to = handlers[LOGGER_NAME]

C2_Witness ==
  /\ cfg.returned /\ OwnEmission /\ emitted.on = <<"mariadb_mcp","db","pool">>
  /\ Upper(cfg.log_level) = <<"E","R","R","O","R">> /\ emitted.sev = ERROR
  /\ Len(emitted.to) = 2

\* What get_logger is documented to return for a name argument.
ExpectedLoggerName(arg) ==
  IF ~arg.given \/ Len(arg.text) = 0 THEN <<"mariadb_mcp">> ELSE <<"mariadb_mcp">> \o arg.text

IsOwnSink(h) == \E i \in 1..Len(handlers[LOGGER_NAME]) : handlers[LOGGER_NAME][i] = h

\* C7 as stated: in every reachable state an emission on the logger family is
\* delivered only to the sinks installed on "mariadb_mcp", and get_logger
\* returns "mariadb_mcp" or "mariadb_mcp.<name>".
C7_IsolatedInEveryState ==
  /\ OwnEmission => \A i \in 1..Len(emitted.to) : IsOwnSink(emitted.to[i])
  /\ (op.name = "get_logger") => ret = Returned(ExpectedLoggerName(op.arg))

\* C7, amended: once some setup_logger call has got past its setLevel (it
\* returned, or failed only while creating the file sink), an emission on the
\* logger family is delivered only to handlers installed on "mariadb_mcp" and
\* never to a root-logger handler; when no handler is installed, events at
\* WARNING or above are printed by the logging module's last-resort stderr
\* handler.  get_logger returns "mariadb_mcp" for an absent or empty name and
\* "mariadb_mcp.<name>" otherwise, in every state.
C7_IsolatedOnceSetUp ==
  /\ (initialized /\ OwnEmission) =>
       /\ \A i \in 1..Len(emitted.to) : IsOwnSink(emitted.to[i])
       /\ emitted.lastResort =>
            (handlers[LOGGER_NAME] = << >> /\ emitted.sev >= WARNING)
  /\ (op.name = "get_logger") => ret = Returned(ExpectedLoggerName(op.arg))

C7_Witness ==
  /\ initialized /\ OwnEmission /\ emitted.on = <<"mariadb_mcp","db">>
  /\ handlers[ROOT] # << >> /\ Len(emitted.to) = 1

\* --------------------------------- configuration values (SpecCfg)
SetupThirdParty ==
  \E lvl \in ValidLevelInputs \cup OtherLevelInputs : setup_third_party_logging(lvl)

NextCfg ==
  \/ SetupLogger /\ UNCHANGED fileVars
  \/ SetupLoggerOtherLevel /\ UNCHANGED fileVars
  \/ SetupThirdParty

SpecCfg == Init /\ [][NextCfg]_vars

FileHandlersOf(hs) == {hs[i] : i \in {j \in 1..Len(hs) : hs[j].kind = "file"}}

\* C8: setup_logger never fails because of a malformed configuration value; a
\* severity string naming none of the five levels gives threshold INFO (WARNING
\* for the third-party threshold); a non-positive max-bytes or backup-count is
\* replaced by its default, 10 MiB and 5.
C8_MalformedValuesFallBack ==
  /\ (op.name = "setup_logger") =>
       /\ raised => (cfg.enable_file /\ ~cfg.io_ok)
       /\ (cfg.returned /\ Upper(cfg.log_level) \notin SeverityNames) =>
            level[LOGGER_NAME] = INFO
       /\ cfg.returned =>
            \A h \in FileHandlersOf(handlers[LOGGER_NAME]) :
              /\ h.maxBytes = IF cfg.log_max_bytes <= 0 THEN DEFAULT_MAX_BYTES
                              ELSE cfg.log_max_bytes
              /\ h.backupCount = IF cfg.log_backup_count <= 0 THEN DEFAULT_BACKUP_COUNT
                                 ELSE cfg.log_backup_count
  /\ (op.name = "setup_third_party_logging" /\ Upper(op.level) \notin SeverityNames) =>
       /\ ~raised
       /\ \A n \in ThirdPartySet : level[n] = WARNING

\* ------------------------------------- third-party loggers (SpecTP)
InitTP ==
  /\ \E amb \in AmbientSets, rh \in RootHandlerChoices : InitWith(amb, rh)
  /\ FmtIdle /\ AuxIdle

\* The configuration config.py passes, with and without the file sink.
SetupLoggerDefault ==
  \E ef \in BOOLEAN :
    setup_logger(<<"I","N","F","O">>, DEFAULT_MAX_BYTES, DEFAULT_BACKUP_COUNT, TRUE, ef, TRUE)

EmitAny == \E n \in Universe, s \in Severities : Emit(n, s)

NextTP ==
  \/ SetupThirdParty
  \/ SetupLoggerDefault /\ UNCHANGED fileVars
  \/ EmitAny

SpecTP == InitTP /\ [][NextTP]_vars

\* Whether an emission at severity s on logger n prints anything anywhere.
Outputs(n, s) == Delivery(n, s).to # << >> \/ Delivery(n, s).lastResort

\* The logger whose level getEffectiveLevel(n) returns.
RECURSIVE LevelSource(_)
LevelSource(n) ==
  IF level[n] # NOTSET \/ n = ROOT THEN n ELSE LevelSource(ParentIn(Now, n))

\* setup_third_party_logging has just run to its end with a threshold string
\* naming one of the five levels.
AfterThirdPartySetup ==
  /\ op.name = "setup_third_party_logging"
  /\ ~raised
  /\ Upper(op.level) \in SeverityNames

\* C5 as stated: after the call with threshold L every listed logger prints
\* nothing below L and prints at or above L, and every logger that is not
\* listed, descendants of listed names included, is filtered as before.
C5_AsStated ==
  AfterThirdPartySetup =>
    LET L == NamedSeverity(Upper(op.level))
    IN /\ \A n \in ThirdPartySet, s \in Severities :
            /\ (s < L) => ~Outputs(n, s)
            /\ (s >= L) => Outputs(n, s)
       /\ \A n \in Universe \ ThirdPartySet, s \in Severities :
            isEnabledFor(n, s) = (s >= getEffectiveLevelIn(before, n))

\* C5, amended: after the call with threshold L, an emission below L on a
\* listed logger prints nothing; one at or above L is handed to the handlers on
\* the logger's propagation chain, and with no handler there only WARNING and
\* above is printed (by the last-resort handler).  A logger that is not listed
\* keeps its filtering unless it takes its effective threshold from a listed
\* ancestor (it has no level of its own, nor has any logger between them), in
\* which case its threshold becomes L.
C5_ThresholdAndInheritance ==
  AfterThirdPartySetup =>
    LET L == NamedSeverity(Upper(op.level))
    IN /\ \A n \in ThirdPartySet, s \in Severities :
            /\ (s < L) => ~Outputs(n, s)
            /\ (s >= L) => (Outputs(n, s) <=> (callHandlers(n) # << >> \/ s >= WARNING))
       /\ \A n \in Universe \ ThirdPartySet :
            IF LevelSource(n) \in ThirdPartySet
              THEN getEffectiveLevel(n) = L
              ELSE \A s \in Severities :
                     isEnabledFor(n, s) = (s >= getEffectiveLevelIn(before, n))

C5_Witness ==
  /\ AfterThirdPartySetup
  /\ Upper(op.level) = <<"E","R","R","O","R">>
  /\ <<"httpx","client">> \in before.loggers /\ level[<<"httpx","client">>] = NOTSET
  /\ getEffectiveLevelIn(before, <<"httpx","client">>) = WARNING
  /\ getEffectiveLevel(<<"httpx","client">>) = ERROR
  /\ <<"httpxtra">> \in loggers /\ getEffectiveLevel(<<"httpxtra">>) = WARNING
  /\ <<"fastmcp">> \notin before.loggers
  /\ handlers[ROOT] = << >>

\* C10: the call changes only the threshold of the listed loggers: the
\* "mariadb_mcp" logger keeps its threshold, propagation flag and sinks, no
\* listed logger gains or loses a sink, and every listed logger keeps its
\* propagation setting.
C10_OnlyThresholdChanges ==
  (op.name = "setup_third_party_logging") =>
    /\ level[LOGGER_NAME] = before.level[LOGGER_NAME]
    /\ propagate[LOGGER_NAME] = before.propagate[LOGGER_NAME]
    /\ handlers[LOGGER_NAME] = before.handlers[LOGGER_NAME]
    /\ \A n \in ThirdPartySet :
         /\ handlers[n] = before.handlers[n]
         /\ propagate[n] = before.propagate[n]

\* ------------------------------------------ the formatter (SpecFmt)
\* Values are strings; None is a value of its own.  An integer is written in
\* digits, and None, the empty string and zero are the false values.
None == "<None>"
Truthy(v) == v \notin {None, "", "0"}

k_timestamp == <<"t","i","m","e","s","t","a","m","p">>
k_level == <<"l","e","v","e","l">>
k_logger == <<"l","o","g","g","e","r">>
k_module == <<"m","o","d","u","l","e">>
k_function == <<"f","u","n","c","t","i","o","n">>
k_line == <<"l","i","n","e">>
k_process == <<"p","r","o","c","e","s","s">>
k_thread == <<"t","h","r","e","a","d">>
k_name == <<"n","a","m","e">>
k_levelname == <<"l","e","v","e","l","n","a","m","e">>
k_funcName == <<"f","u","n","c","N","a","m","e">>
k_lineno == <<"l","i","n","e","n","o">>
k_created == <<"c","r","e","a","t","e","d">>
k_message == <<"m","e","s","s","a","g","e">>
k_msg == <<"m","s","g">>
k_asctime == <<"a","s","c","t","i","m","e">>
k_private == <<"_","i","d">>
k_request == <<"r","e","q","u","e","s","t","_","i","d">>

\* The fields named in fmt=, which JsonFormatter takes as its required fields:
\* %(timestamp)s %(level)s %(name)s %(module)s %(funcName)s:%(lineno)d %(message)s
RequiredFields ==
  <<k_timestamp, k_level, k_name, k_module, k_funcName, k_lineno, k_message>>

RequiredFieldSet == {RequiredFields[i] : i \in 1..Len(RequiredFields)}

\* The attributes logging gives every LogRecord (those a key of this model
\* can collide with).
RecordAttrs(ev) ==
  (k_name :> ev.name) @@ (k_levelname :> ev.levelname) @@ (k_module :> ev.module)
    @@ (k_funcName :> ev.funcName) @@ (k_lineno :> ev.lineno)
    @@ (k_created :> ev.created) @@ (k_process :> ev.process)
    @@ (k_thread :> ev.thread) @@ (k_msg :> ev.msg)

\* jsonlogger.RESERVED_ATTRS restricted to the keys above, and the skip list
\* JsonFormatter builds from it and the required fields.
ReservedAttrs ==
  {k_name, k_levelname, k_module, k_funcName, k_lineno, k_created, k_process,
   k_thread, k_msg, k_message, k_asctime}

SkipFields == RequiredFieldSet \cup ReservedAttrs

\* Logger.makeRecord refuses an extra key that is "message", "asctime" or an
\* attribute the record already has.
MakeRecordRaises(ev, extra) ==
  \E k \in DOMAIN extra : k \in {k_message, k_asctime} \/ k \in DOMAIN RecordAttrs(ev)

\* dict.update
Update(d, e) ==
  [k \in DOMAIN d \cup DOMAIN e |-> IF k \in DOMAIN e THEN e[k] ELSE d[k]]

\* dict.get(key), None when the key is absent
Get(d, k) == IF k \in DOMAIN d THEN d[k] ELSE None

\* time.strftime('%Y-%m-%d %H:%M:%S', ...) of record.created (seconds, UTC).
formatTime(created) ==
  CASE created = "0" -> "1970-01-01 00:00:00"
    [] created = "61" -> "1970-01-01 00:01:01"

\* jsonlogger.merge_record_extra: the record's attributes that are neither
\* skipped nor begin with an underscore.
MergeRecordExtra(rdict, target) ==
  Update(target,
         [k \in {x \in DOMAIN rdict : x \notin SkipFields /\ x[1] # "_"} |-> rdict[k]])

\* JsonFormatter.add_fields, which CustomJsonFormatter.add_fields calls first.
BaseAddFields(rdict, message_dict) ==
  MergeRecordExtra(rdict,
    Update([f \in RequiredFieldSet |-> Get(rdict, f)], message_dict))

\* if not log_record.get('timestamp'): log_record['timestamp'] = self.formatTime(...)
EnsureTimestamp(lr, rdict) ==
  IF ~Truthy(Get(lr, k_timestamp))
    THEN Update(lr, k_timestamp :> formatTime(rdict[k_created]))
    ELSE lr

\* A context step that fills a field only when the record has none yet.
AddCallingContext_IfAbsent(lr, rdict) ==
  Update((k_level :> rdict[k_levelname]) @@ (k_logger :> rdict[k_name])
           @@ (k_module :> rdict[k_module]) @@ (k_function :> rdict[k_funcName])
           @@ (k_line :> rdict[k_lineno]),
         lr)

\* log_record['level'] = record.levelname ... log_record['line'] = record.lineno
AddCallingContext(lr, rdict) ==
  Update(lr,
         (k_level :> rdict[k_levelname]) @@ (k_logger :> rdict[k_name])
           @@ (k_module :> rdict[k_module]) @@ (k_function :> rdict[k_funcName])
           @@ (k_line :> rdict[k_lineno]))

\* if record.process: ... if record.thread: ...
AddProcessThread(lr, rdict) ==
  Update(lr,
         [k \in {x \in {k_process, k_thread} : Truthy(rdict[x])} |-> rdict[k]])

\* CustomJsonFormatter.add_fields
add_fields(rdict, message_dict) ==
  AddProcessThread(
    AddCallingContext(
      EnsureTimestamp(BaseAddFields(rdict, message_dict), rdict), rdict), rdict)

Events ==
  [levelname : {"INFO", "ERROR"}, name : {"mariadb_mcp"}, module : {"config"},
   funcName : {"load"}, lineno : {"76"}, created : {"0", "61"},
   process : {"4242", None}, thread : {"7"}, msg : {"m"}]

ExtraKeys ==
  {k_timestamp, k_level, k_logger, k_function, k_line, k_module, k_process,
   k_private, k_request}

ExtraValues == {"", "x"}

Extras ==
  UNION {[D -> ExtraValues] : D \in {X \in SUBSET ExtraKeys : Cardinality(X) <= MaxExtraKeys}}

\* The registry, untouched while the formatter is exercised.
RegIdle == InitWith({}, << >>)

\* A call logger.info(msg, extra=extra) about to be processed.
InitFmt ==
  /\ RegIdle /\ AuxIdle
  /\ fmtEvent \in Events
  /\ fmtExtra \in Extras
  /\ fmtStatus = "called"
  /\ fmtRecord = << >>
  /\ log_record = << >>

\* Logger.makeRecord: the record's attributes plus the extras, or KeyError.
MakeRecord ==
  /\ fmtStatus = "called"
  /\ IF MakeRecordRaises(fmtEvent, fmtExtra)
       THEN fmtStatus' = "KeyError" /\ fmtRecord' = fmtRecord
       ELSE /\ fmtStatus' = "record"
            /\ fmtRecord' = Update(RecordAttrs(fmtEvent), fmtExtra)
  /\ UNCHANGED <<fmtEvent, fmtExtra, log_record>>
  /\ UNCHANGED <<regVars, fileVars, auxVars>>

\* JsonFormatter.format: record.message is set, then add_fields fills the
\* mapping from the record and an empty message_dict (the message is a string).
Format ==
  /\ fmtStatus = "record"
  /\ fmtStatus' = "formatted"
  /\ fmtRecord' = Update(fmtRecord, k_message :> fmtEvent.msg)
  /\ log_record' = add_fields(Update(fmtRecord, k_message :> fmtEvent.msg), << >>)
  /\ UNCHANGED <<fmtEvent, fmtExtra>>
  /\ UNCHANGED <<regVars, fileVars, auxVars>>

NextFmt == MakeRecord \/ Format

SpecFmt == InitFmt /\ [][NextFmt]_vars

GuaranteedKeys == {k_timestamp, k_level, k_logger, k_module, k_function, k_line}

ContextFromEvent ==
  /\ log_record[k_level] = fmtEvent.levelname
  /\ log_record[k_logger] = fmtEvent.name
  /\ log_record[k_module] = fmtEvent.module
  /\ log_record[k_function] = fmtEvent.funcName
  /\ log_record[k_line] = fmtEvent.lineno

\* C3 as stated: the formatted record holds timestamp, level, logger, module,
\* function and line with the values of the event, whatever the extras, and
\* every extra whose key is none of these six is in the record.
C3_AsStated ==
  (fmtStatus = "formatted") =>
    /\ GuaranteedKeys \subseteq DOMAIN log_record
    /\ ContextFromEvent
    /\ log_record[k_timestamp] = formatTime(fmtEvent.created)
    /\ \A k \in DOMAIN fmtExtra \ GuaranteedKeys :
         k \in DOMAIN log_record /\ log_record[k] = fmtExtra[k]

\* C3, amended: the formatted record holds level, logger, module, function and
\* line with the values of the event, whatever the extras; timestamp is the
\* event's formatted time unless the caller passed an extra "timestamp" with a
\* true value, which is emitted instead; every extra whose key is none of the
\* six and does not begin with an underscore is in the record, and one whose
\* key begins with an underscore is dropped.  A call whose extra names a
\* LogRecord attribute (module, process, ...) raises KeyError and formats
\* nothing.
C3_ContextKeptTimestampFromExtra ==
  /\ (fmtStatus = "formatted") =>
       /\ GuaranteedKeys \subseteq DOMAIN log_record
       /\ ContextFromEvent
       /\ log_record[k_timestamp] =
            IF k_timestamp \in DOMAIN fmtExtra /\ Truthy(fmtExtra[k_timestamp])
              THEN fmtExtra[k_timestamp]
              ELSE formatTime(fmtEvent.created)
       /\ \A k \in DOMAIN fmtExtra \ GuaranteedKeys :
            IF k[1] = "_" THEN k \notin DOMAIN log_record
            ELSE k \in DOMAIN log_record /\ log_record[k] = fmtExtra[k]
  /\ (fmtStatus = "KeyError") <=>
       (fmtStatus \notin {"called", "idle"}
          /\ \E k \in DOMAIN fmtExtra : k \in {k_module, k_process})

C3_Witness ==
  /\ fmtStatus = "formatted"
  /\ DOMAIN fmtExtra = {k_timestamp, k_level, k_request}
  /\ fmtExtra[k_timestamp] = "x" /\ fmtExtra[k_level] = "x"
  /\ log_record[k_level] = "ERROR" /\ log_record[k_timestamp] = "x"
  /\ log_record[k_request] = "x"

\* ------------------------------------- the rotating file sink (SpecRot)
\* The file handler attached to "mariadb_mcp", if any.
HasFileSink == FileHandlersOf(handlers[LOGGER_NAME]) # {}
FileSink == CHOOSE h \in FileHandlersOf(handlers[LOGGER_NAME]) : TRUE

\* RotatingFileHandler.shouldRollover: with maxBytes > 0, whether the file's
\* size plus the length of the formatted record and its newline reaches it.
shouldRollover(h, files, len) ==
  h.maxBytes > 0 /\ files.cur.size + len >= h.maxBytes

\* The loop of doRollover: for i in range(backupCount - 1, 0, -1), rename
\* <path>.i to <path>.(i+1) when it exists, removing the target first.
RECURSIVE ShiftBackups(_, _)
ShiftBackups(bak, i) ==
  IF i < 1 THEN bak
  ELSE ShiftBackups(IF bak[i] # NoFile
                      THEN [bak EXCEPT ![i + 1] = bak[i], ![i] = NoFile]
                      ELSE bak,
                    i - 1)

\* Records lost by that loop and by the removal of <path>.1 that follows it.
RECURSIVE ShiftLoss(_, _)
ShiftLoss(bak, i) ==
  IF i < 1 THEN (IF bak[1] # NoFile THEN bak[1].recs ELSE 0)
  ELSE IF bak[i] # NoFile
    THEN (IF bak[i + 1] # NoFile THEN bak[i + 1].recs ELSE 0)
           + ShiftLoss([bak EXCEPT ![i + 1] = bak[i], ![i] = NoFile], i - 1)
    ELSE ShiftLoss(bak, i - 1)

\* RotatingFileHandler.doRollover, n being the number of this rollover: with
\* backupCount > 0 the backups shift up, the log file becomes <path>.1 and a
\* new empty file is opened; otherwise the stream is closed and the same file
\* is opened again for appending.
doRollover(h, files, n) ==
  IF h.backupCount > 0
    THEN [cur |-> File(0, 0, n),
          bak |-> [ShiftBackups(files.bak, h.backupCount - 1) EXCEPT ![1] = files.cur]]
    ELSE files

RolloverLoss(h, files) ==
  IF h.backupCount > 0 THEN ShiftLoss(files.bak, h.backupCount - 1) ELSE 0

\* FileHandler.emit: the record and its newline are appended to the log file.
WriteRecord(files, len) ==
  [files EXCEPT !.cur = File(@.size + len, @.recs + 1, @.born)]

\* Whole records in the log file and its backups.
RECURSIVE RecordsInBackups(_, _)
RecordsInBackups(bak, i) ==
  IF i < 1 THEN 0 ELSE bak[i].recs + RecordsInBackups(bak, i - 1)

RecordsIn(files) == files.cur.recs + RecordsInBackups(files.bak, MaxSlots)

\* BaseRotatingHandler.emit of the attached file handler for a record whose
\* formatted line is len bytes long.
FileEmit(len) ==
  /\ HasFileSink
  /\ RecordsIn(fs) + evicted < MaxWrites
  /\ LET roll == shouldRollover(FileSink, fs, len)
         rolled == IF roll THEN doRollover(FileSink, fs, rotations + 1) ELSE fs
     IN /\ fs' = WriteRecord(rolled, len)
        /\ rotations' = IF roll THEN rotations + 1 ELSE rotations
        /\ evicted' = IF roll THEN evicted + RolloverLoss(FileSink, fs) ELSE evicted
        /\ lastWrite' = [len |-> len, sizeBefore |-> fs.cur.size,
                         bornBefore |-> fs.cur.born, rolled |-> roll]
  /\ UNCHANGED <<regVars, fmtVars, auxVars>>

\* (log_max_bytes, log_backup_count) pairs for the file sink, in bytes small
\* enough for a few records to fill a file.
RotSizeInputs == {4, 6, 0, -1} \X {0, 1, 2}

\* Lengths of formatted records, newline included.
RecordLengths == {1, 2, 3, 7}

\* The log file may hold records of an earlier run.
InitRot ==
  /\ InitWith({}, << >>) /\ FmtIdle /\ ConcIdle /\ ReinitIdle
  /\ \E old \in {0, 2} : fs = FilesWith(old, IF old = 0 THEN 0 ELSE 1)
  /\ rotations = 0 /\ evicted = 0 /\ lastWrite = NoWrite

\* setup_logger with the file sink alone, called once.
SetupFileSink ==
  /\ gen = 0
  /\ \E sz \in RotSizeInputs :
       setup_logger(<<"I","N","F","O">>, sz[1], sz[2], FALSE, TRUE, TRUE)
  /\ UNCHANGED fileVars

WriteAny == \E len \in RecordLengths : FileEmit(len)

NextRot == SetupFileSink \/ WriteAny

SpecRot == InitRot /\ [][NextRot]_vars

Backups == {i \in 1..MaxSlots : fs.bak[i] # NoFile}

\* C4: with max bytes M and backup count B, a write that would take the file
\* past M first turns the file into backup .1 (shifting the older backups and
\* deleting the one beyond slot B) and goes to a new empty file; at most B
\* backups ever exist; the record written right after a rotation lands in a
\* file that was empty, so below M; after B + 1 rotations the file that was
\* rotated first is gone.
C4_RotatesBeforeExceeding ==
  HasFileSink =>
    LET M == FileSink.maxBytes
        B == FileSink.backupCount
    IN /\ (lastWrite.len > 0 /\ lastWrite.sizeBefore + lastWrite.len > M) =>
            /\ lastWrite.rolled
            /\ fs.bak[1] # NoFile
            /\ fs.bak[1].size = lastWrite.sizeBefore
            /\ fs.bak[1].born = lastWrite.bornBefore
            /\ fs.cur.size = lastWrite.len
       /\ Cardinality(Backups) <= B
       /\ (lastWrite.len > 0 /\ lastWrite.rolled) =>
            (fs.cur.size - lastWrite.len = 0 /\ fs.cur.size - lastWrite.len < M)
       /\ (rotations >= B + 1) =>
            (fs.cur.born # 0 /\ \A i \in Backups : fs.bak[i].born # 0)

\* The same, for a positive max bytes and a positive backup count only.
C4_WithPositiveSizes ==
  (HasFileSink /\ FileSink.maxBytes > 0 /\ FileSink.backupCount > 0) =>
    C4_RotatesBeforeExceeding

C4_PositiveWitness ==
  /\ HasFileSink /\ FileSink.backupCount = 2 /\ rotations = 3 /\ lastWrite.rolled
  /\ Cardinality(Backups) = 2

\* ---------------------------- threads emitting to the file sink (SpecConc)
\* Handler.acquire succeeds when no thread holds the handler's lock.
LockFree_Unguarded == TRUE
LockFree == lock = NoThread

InEmit(t) == pc[t] \in {"check", "rollover", "write", "release"}

\* Logger.error of a thread reaches Handler.handle of the file handler, which
\* acquires the handler's lock before calling emit.
Acquire(t) ==
  /\ HasFileSink /\ isEnabledFor(LOGGER_NAME, ERROR)
  /\ pc[t] = "idle" /\ todo[t] > 0
  /\ LockFree
  /\ \E len \in {2, 3} : pend' = [pend EXCEPT ![t] = len]
  /\ lock' = t
  /\ pc' = [pc EXCEPT ![t] = "check"]
  /\ UNCHANGED <<todo, regVars, fmtVars, fileVars, reinitVars>>

\* BaseRotatingHandler.emit: if self.shouldRollover(record)
CheckSize(t) ==
  /\ pc[t] = "check"
  /\ pc' = [pc EXCEPT ![t] =
              IF shouldRollover(FileSink, fs, pend[t]) THEN "rollover" ELSE "write"]
  /\ UNCHANGED <<todo, pend, lock, regVars, fmtVars, fileVars, reinitVars>>

\* BaseRotatingHandler.emit: self.doRollover()
Rollover(t) ==
  /\ pc[t] = "rollover"
  /\ fs' = doRollover(FileSink, fs, rotations + 1)
  /\ rotations' = rotations + 1
  /\ evicted' = evicted + RolloverLoss(FileSink, fs)
  /\ pc' = [pc EXCEPT ![t] = "write"]
  /\ UNCHANGED <<lastWrite, todo, pend, lock, regVars, fmtVars, reinitVars>>

\* BaseRotatingHandler.emit: logging.FileHandler.emit(self, record)
Write(t) ==
  /\ pc[t] = "write"
  /\ fs' = WriteRecord(fs, pend[t])
  /\ pc' = [pc EXCEPT ![t] = "release"]
  /\ UNCHANGED <<rotations, evicted, lastWrite, todo, pend, lock>>
  /\ UNCHANGED <<regVars, fmtVars, reinitVars>>

\* Handler.handle releases the lock after emit.
Release(t) ==
  /\ pc[t] = "release"
  /\ lock' = IF lock = t THEN NoThread ELSE lock
  /\ todo' = [todo EXCEPT ![t] = @ - 1]
  /\ pc' = [pc EXCEPT ![t] = "idle"]
  /\ UNCHANGED <<pend, regVars, fmtVars, fileVars, reinitVars>>

\* (log_max_bytes, log_backup_count) pairs of the sink the threads share.
ConcSizeInputs ==
  {<<4, 1>>, <<4, 2>>, <<6, 1>>, <<DEFAULT_MAX_BYTES, DEFAULT_BACKUP_COUNT>>}

InitConc ==
  /\ InitWith({}, << >>) /\ FmtIdle /\ FileIdle /\ ReinitIdle
  /\ pc = [t \in Threads |-> "idle"] /\ todo = [t \in Threads |-> EventsPerThread]
  /\ pend = [t \in Threads |-> 0] /\ lock = NoThread

SetupSharedSink ==
  /\ gen = 0
  /\ \E sz \in ConcSizeInputs :
       setup_logger(<<"I","N","F","O">>, sz[1], sz[2], FALSE, TRUE, TRUE)
  /\ UNCHANGED fileVars

NextConc ==
  \/ SetupSharedSink
  \/ \E t \in Threads : Acquire(t)
  \/ \E t \in Threads : CheckSize(t)
  \/ \E t \in Threads : Rollover(t)
  \/ \E t \in Threads : Write(t)
  \/ \E t \in Threads : Release(t)

SpecConc == InitConc /\ [][NextConc]_vars

RECURSIVE SumOver(_, _)
SumOver(f, i) == IF i < 1 THEN 0 ELSE f[i] + SumOver(f, i - 1)

\* Emissions whose record has been written.
Written ==
  SumOver([t \in Threads |-> EventsPerThread - todo[t]
                              + (IF pc[t] = "release" THEN 1 ELSE 0)], NumThreads)

AllEmitted == HasFileSink /\ \A t \in Threads : todo[t] = 0

Serialised ==
  /\ \A t1, t2 \in Threads : (InEmit(t1) /\ InEmit(t2)) => t1 = t2
  /\ \A t \in Threads : InEmit(t) <=> lock = t

\* C6 as stated: emissions are serialised by the sink's lock, and once T
\* threads have emitted K events each, exactly T*K records are in the log
\* file and its backups.
C6_AllRecordsInFileSet ==
  /\ Serialised
  /\ AllEmitted => RecordsIn(fs) = NumThreads * EventsPerThread

\* C6: the check-size / rotate / write sequence of an emission runs under
\* the sink's lock, so no two emissions overlap; every emission writes one
\* whole record, and once T threads have emitted K events each, the T*K
\* records are those in the log file and its backups plus those that were in
\* a backup when rotation removed it; all T*K are in the file set when no
\* backup was removed.
C6_SerialisedWholeRecords ==
  /\ Serialised
  /\ RecordsIn(fs) + evicted = Written
  /\ AllEmitted => RecordsIn(fs) + evicted = NumThreads * EventsPerThread
  /\ (AllEmitted /\ evicted = 0) => RecordsIn(fs) = NumThreads * EventsPerThread

C6_Witness ==
  /\ AllEmitted /\ rotations >= 2 /\ evicted > 0
  /\ RecordsIn(fs) < NumThreads * EventsPerThread

\* ------------- setup_logger running next to an emission (SpecReinit)
\* The threshold and the sinks of "mariadb_mcp".
Config(lvl, hs) == [level |-> lvl, handlers |-> hs]
CurrentConfig == Config(level[LOGGER_NAME], handlers[LOGGER_NAME])

Setup(p, a, snap, old, new) ==
  [pc |-> p, args |-> a, snap |-> snap, old |-> old, new |-> new]

\* A second setup_logger call is entered; nothing in the function takes a
\* lock, so each statement below is a step other threads can interleave with.
BeginSetup(log_level, enable_console, enable_file) ==
  /\ initialized /\ gen < MaxSetups /\ su.pc = "none"
  /\ ~SetLevelRaises(RequestedLevel(log_level))
  /\ su' = Setup("setLevel",
                 [log_level |-> log_level, enable_console |-> enable_console,
                  enable_file |-> enable_file],
                 << >>, CurrentConfig,
                 Config(RequestedLevel(log_level).v,
                        NewHandlers(gen + 1, DEFAULT_MAX_BYTES, DEFAULT_BACKUP_COUNT,
                                    enable_console, enable_file, TRUE)))
  /\ UNCHANGED <<regVars, fmtVars, fileVars, concVars, em>>

\* logger.setLevel(...)
StepSetLevel ==
  /\ su.pc = "setLevel"
  /\ level' = [level EXCEPT ![LOGGER_NAME] = RequestedLevel(su.args.log_level).v]
  /\ su' = [su EXCEPT !.pc = "propagate"]
  /\ UNCHANGED <<loggers, propagate, handlers, gen, cfg, raised, initialized,
                 op, ret, emitted, before>>
  /\ UNCHANGED <<fmtVars, fileVars, concVars, em>>

\* logger.propagate = False, then the copy logger.handlers[:] is taken.
StepPropagate ==
  /\ su.pc = "propagate"
  /\ propagate' = [propagate EXCEPT ![LOGGER_NAME] = PropagateAfterSetup]
  /\ su' = [su EXCEPT !.pc = "remove", !.snap = handlers[LOGGER_NAME]]
  /\ UNCHANGED <<loggers, level, handlers, gen, cfg, raised, initialized,
                 op, ret, emitted, before>>
  /\ UNCHANGED <<fmtVars, fileVars, concVars, em>>

\* list.remove of Logger.removeHandler
Without(hs, h) == SelectSeq(hs, LAMBDA x : x # h)

\* logger.removeHandler(handler) for the next handler of the copy.
StepRemove ==
  /\ su.pc = "remove" /\ su.snap # << >>
  /\ handlers' = [handlers EXCEPT ![LOGGER_NAME] = Without(@, Head(su.snap))]
  /\ su' = [su EXCEPT !.snap = Tail(@)]
  /\ UNCHANGED <<loggers, level, propagate, gen, cfg, raised, initialized,
                 op, ret, emitted, before>>
  /\ UNCHANGED <<fmtVars, fileVars, concVars, em>>

\* if enable_console: logger.addHandler(console_handler)
StepConsole ==
  /\ su.pc = "remove" /\ su.snap = << >>
  /\ handlers' = [handlers EXCEPT ![LOGGER_NAME] =
        @ \o (IF su.args.enable_console THEN <<ConsoleHandler(gen + 1)>> ELSE << >>)]
  /\ su' = [su EXCEPT !.pc = "file"]
  /\ UNCHANGED <<loggers, level, propagate, gen, cfg, raised, initialized,
                 op, ret, emitted, before>>
  /\ UNCHANGED <<fmtVars, fileVars, concVars, em>>

\* if enable_file: logger.addHandler(file_handler); return logger
StepFile ==
  /\ su.pc = "file"
  /\ handlers' = [handlers EXCEPT ![LOGGER_NAME] =
        @ \o (IF su.args.enable_file
                THEN <<RotatingFileHandler(gen + 1, DEFAULT_MAX_BYTES, DEFAULT_BACKUP_COUNT)>>
                ELSE << >>)]
  /\ gen' = gen + 1
  /\ cfg' = [called |-> TRUE, log_level |-> su.args.log_level,
             log_max_bytes |-> DEFAULT_MAX_BYTES,
             log_backup_count |-> DEFAULT_BACKUP_COUNT,
             enable_console |-> su.args.enable_console,
             enable_file |-> su.args.enable_file, io_ok |-> TRUE, returned |-> TRUE]
  /\ op' = Op("setup_logger", NoArg, << >>)
  /\ ret' = Returned(LOGGER_NAME)
  /\ raised' = FALSE
  /\ su' = [su EXCEPT !.pc = "returned"]
  /\ UNCHANGED <<loggers, level, propagate, initialized, emitted, before>>
  /\ UNCHANGED <<fmtVars, fileVars, concVars, em>>

Log(p, sev, idx, to, lastResort) ==
  [pc |-> p, sev |-> sev, idx |-> idx, to |-> to, lastResort |-> lastResort]

\* Another thread calls logger.log(sev, ...) on "mariadb_mcp".
BeginLog(sev) ==
  /\ initialized /\ em.pc = "none"
  /\ em' = Log("isEnabledFor", sev, 1, << >>, FALSE)
  /\ UNCHANGED <<regVars, fmtVars, fileVars, concVars, su>>

\* Logger.log: if self.isEnabledFor(level)
StepIsEnabledFor ==
  /\ em.pc = "isEnabledFor"
  /\ em' = [em EXCEPT !.pc = IF isEnabledFor(LOGGER_NAME, em.sev)
                               THEN "callHandlers" ELSE "done"]
  /\ UNCHANGED <<regVars, fmtVars, fileVars, concVars, su>>

\* Logger.callHandlers: one turn of "for hdlr in c.handlers", which walks the
\* logger's own list by position; past its end, since the logger does not
\* propagate, the walk stops and lastResort serves an event no handler got.
StepCallHandlers ==
  /\ em.pc = "callHandlers"
  /\ IF em.idx <= Len(handlers[LOGGER_NAME])
       THEN em' = [em EXCEPT !.to = Append(@, handlers[LOGGER_NAME][em.idx]),
                             !.idx = @ + 1]
       ELSE em' = [em EXCEPT !.pc = "done",
                             !.to = IF propagate[LOGGER_NAME]
                                      THEN @ \o handlers[ROOT] ELSE @,
                             !.lastResort =
                                /\ em.to = << >>
                                /\ ~(propagate[LOGGER_NAME] /\ handlers[ROOT] # << >>)
                                /\ em.sev >= WARNING]
  /\ UNCHANGED <<regVars, fmtVars, fileVars, concVars, su>>

InitReinit ==
  /\ \E rh \in RootHandlerChoices : InitWith({}, rh)
  /\ FmtIdle /\ AuxIdle

\* The first setup_logger call, made before any other thread is started.
SetupFirst ==
  /\ gen = 0
  /\ \E lv \in {<<"I","N","F","O">>, <<"D","E","B","U","G">>}, ec \in BOOLEAN :
       setup_logger(lv, DEFAULT_MAX_BYTES, DEFAULT_BACKUP_COUNT, ec, TRUE, TRUE)
  /\ UNCHANGED fileVars

Reinitialize ==
  \E lv \in {<<"D","E","B","U","G">>, <<"E","R","R","O","R">>},
     ec \in BOOLEAN, ef \in BOOLEAN :
       (ec \/ ef) /\ BeginSetup(lv, ec, ef)

LogEvent == \E sev \in {DEBUG, INFO, ERROR} : BeginLog(sev)

NextReinit ==
  \/ SetupFirst
  \/ Reinitialize
  \/ StepSetLevel
  \/ StepPropagate
  \/ StepRemove
  \/ StepConsole
  \/ StepFile
  \/ LogEvent
  \/ StepIsEnabledFor
  \/ StepCallHandlers

SpecReinit == InitReinit /\ [][NextReinit]_vars

\* What an emission of severity sev produces under a configuration.
DeliveryUnder(c, sev) ==
  IF sev >= c.level
    THEN [to |-> c.handlers, lastResort |-> c.handlers = << >> /\ sev >= WARNING]
    ELSE [to |-> << >>, lastResort |-> FALSE]

Delivered == [to |-> em.to, lastResort |-> em.lastResort]

\* C9: an emission that runs while setup_logger re-initializes the logger is
\* delivered as under the complete old configuration or as under the complete
\* new one: never to a part of a sink set, to no sink at all, or to the old
\* sinks under the new threshold.
C9_OldOrNewSinkSet ==
  em.pc = "done" =>
    IF su.pc = "none"
      THEN Delivered = DeliveryUnder(CurrentConfig, em.sev)
      ELSE \/ Delivered = DeliveryUnder(su.old, em.sev)
           \/ Delivered = DeliveryUnder(su.new, em.sev)

\* The same for an emission that starts after the re-initialization returned.
C9_AfterReturn ==
  (em.pc = "isEnabledFor" /\ su.pc = "returned") => CurrentConfig = su.new

====
